---- MODULE Spec2Model ----
(***************************************************************************)
(* A model of canvas_procedural.py: a character canvas (a list of strings) *)
(* and the drawing functions draw_line, draw_polygon, draw_rectangle and   *)
(* draw_n_gon, all of which end in the Bresenham loop of                   *)
(* draw_line_segment and its string splice replace_at_index.               *)
(*                                                                         *)
(* A canvas is a sequence of rows, a row a sequence of one-character       *)
(* strings. Python indexes from 0, TLA+ from 1: cell (x, y) of the program *)
(* is canvas[y + 1][x + 1] here. A point is a pair <<x, y>>.               *)
(***************************************************************************)
EXTENDS Integers, Sequences, FiniteSets, TLC

\* ------------------------------------------------------------- bounds
\* The canvas is W columns by H rows (the program's own is 100 by 40).
W == 6
H == 5
\* The number of drawing calls of one session on one canvas.
MaxCalls == 2
\* The longest point list handed to draw_polygon.
MaxPolyLen == 3
\* The largest number_of_points handed to draw_n_gon.
MaxK == 7
\* The while loop is unbounded in the code; the model gives up on a loop
\* that runs longer than this, far beyond any segment of the inputs.
LoopCap == 2 * (W + H) + 4

\* ---------------------------------------------------- Python builtins
Abs(n) == IF n < 0 THEN -n ELSE n

Max(a, b) == IF a >= b THEN a ELSE b

Min(a, b) == IF a <= b THEN a ELSE b

\* A slice bound i of a sequence of length n: a negative bound counts from
\* the end, and both ends are clamped to the sequence.
SliceIndex(i, n) == IF i < 0 THEN Max(i + n, 0) ELSE Min(i, n)

\* s[lo:hi]
Slice(s, lo, hi) ==
  LET a == SliceIndex(lo, Len(s))
      b == SliceIndex(hi, Len(s))
  IN  IF a >= b THEN <<>> ELSE SubSeq(s, a + 1, b)

\* Whether l[i] is an element of a list of length n (no IndexError).
ValidIndex(i, n) == -n <= i /\ i < n

\* The 1-based position of l[i], for a valid i.
ListPos(i, n) == IF i < 0 THEN i + n + 1 ELSE i + 1

\* range(a, b, step) for a positive step
PyRange(a, b, step) ==
  LET n == IF b <= a THEN 0 ELSE ((b - a) + step - 1) \div step
  IN  [i \in 1..n |-> a + (i - 1) * step]

\* zip(xs, ys)
Zip(xs, ys) == [i \in 1..Min(Len(xs), Len(ys)) |-> <<xs[i], ys[i]>>]

\* ------------------------------------------------- math.cos, math.sin
\* Cosines are kept as integers, scaled by Scale.
Scale == 1000000

\* round(cos(d degrees) * Scale) for d = 0..90
CosTable ==
  << 1000000, 999848, 999391, 998630, 997564, 996195, 994522, 992546,
     990268, 987688, 984808, 981627, 978148, 974370, 970296, 965926,
     961262, 956305, 951057, 945519, 939693, 933580, 927184, 920505,
     913545, 906308, 898794, 891007, 882948, 874620, 866025, 857167,
     848048, 838671, 829038, 819152, 809017, 798636, 788011, 777146,
     766044, 754710, 743145, 731354, 719340, 707107, 694658, 681998,
     669131, 656059, 642788, 629320, 615661, 601815, 587785, 573576,
     559193, 544639, 529919, 515038, 500000, 484810, 469472, 453990,
     438371, 422618, 406737, 390731, 374607, 358368, 342020, 325568,
     309017, 292372, 275637, 258819, 241922, 224951, 207912, 190809,
     173648, 156434, 139173, 121869, 104528, 87156, 69756, 52336,
     34899, 17452, 0 >>

\* math.cos(math.radians(angle)) * Scale, for any integer angle in degrees
CosScaled(angle) ==
  LET a == angle % 360
  IN  IF a <= 90 THEN CosTable[a + 1]
      ELSE IF a <= 180 THEN -CosTable[180 - a + 1]
      ELSE IF a <= 270 THEN -CosTable[a - 180 + 1]
      ELSE CosTable[360 - a + 1]

\* math.sin(math.radians(angle)) * Scale
SinScaled(angle) == CosScaled(angle - 90)

\* round(v / Scale): Python rounds a tie to the even neighbour. With an even
\* radius no vertex coordinate is within 1/Scale of a tie, and the table
\* decides the rounding exactly as the floating-point code does.
Round(v) ==
  LET q == v \div Scale
      r == v % Scale
  IN  IF 2 * r < Scale THEN q
      ELSE IF 2 * r > Scale THEN q + 1
      ELSE IF q % 2 = 0 THEN q ELSE q + 1

\* --------------------------------------------------------- the canvas
Fill == " "

\* [" " * canvas_width for _ in range(canvas_height)]
Blank == [y \in 1..H |-> [x \in 1..W |-> Fill]]

\* replace_at_index with the tail taken from idx: the string is inserted
\* and nothing is replaced.
replace_at_index_Insert(s, r, idx) ==
  Slice(s, 0, idx) \o r \o Slice(s, idx, Len(s))

\* The string splice that paints: s[:idx] + r + s[idx + len(r):]
replace_at_index(s, r, idx) ==
  Slice(s, 0, idx) \o r \o Slice(s, idx + Len(r), Len(s))

\* ------------------------------------------------- draw_line_segment
\* canvas[y] = replace_at_index(canvas[y], line_char, x). Reading canvas[y]
\* raises IndexError for a y that is no index of the list, before anything
\* is written; the splice itself never raises. trace records the cells the
\* statement was executed for, in order.
PaintAt(st, x, y, line_char) ==
  IF ~ValidIndex(y, Len(st.canvas))
  THEN [st EXCEPT !.status = "IndexError", !.trace = Append(@, <<x, y>>)]
  ELSE [st EXCEPT
          !.canvas[ListPos(y, Len(st.canvas))] = replace_at_index(@, line_char, x),
          !.trace = Append(@, <<x, y>>)]

\* LineInit with the abs() calls forgotten.
LineInit_NoAbs(cv, start, end) ==
  LET x1 == start[1]
      y1 == start[2]
      x2 == end[1]
      y2 == end[2]
      dx == x2 - x1
      dy == y2 - y1
  IN  [canvas |-> cv, x1 |-> x1, y1 |-> y1, x2 |-> x2, y2 |-> y2,
       dx |-> dx, dy |-> dy,
       sx |-> IF x1 < x2 THEN 1 ELSE -1,
       sy |-> IF y1 < y2 THEN 1 ELSE -1,
       error |-> dx - dy,
       trace |-> <<>>, iters |-> 0, status |-> "running"]

\* LineInit with sx = 1 on both branches.
LineInit_StepRight(cv, start, end) ==
  LET x1 == start[1]
      y1 == start[2]
      x2 == end[1]
      y2 == end[2]
      dx == Abs(x2 - x1)
      dy == Abs(y2 - y1)
  IN  [canvas |-> cv, x1 |-> x1, y1 |-> y1, x2 |-> x2, y2 |-> y2,
       dx |-> dx, dy |-> dy,
       sx |-> 1,
       sy |-> IF y1 < y2 THEN 1 ELSE -1,
       error |-> dx - dy,
       trace |-> <<>>, iters |-> 0, status |-> "running"]

\* The locals of draw_line_segment before its loop.
LineInit(cv, start, end) ==
  LET x1 == start[1]
      y1 == start[2]
      x2 == end[1]
      y2 == end[2]
      dx == Abs(x2 - x1)
      dy == Abs(y2 - y1)
  IN  [canvas |-> cv, x1 |-> x1, y1 |-> y1, x2 |-> x2, y2 |-> y2,
       dx |-> dx, dy |-> dy,
       sx |-> IF x1 < x2 THEN 1 ELSE -1,
       sy |-> IF y1 < y2 THEN 1 ELSE -1,
       error |-> dx - dy,
       trace |-> <<>>, iters |-> 0, status |-> "running"]

\* LoopBody with the first test against dy instead of -dy.
LoopBody_SignDropped(st) ==
  LET double_error == st.error * 2
      stepx == double_error > st.dy
      stepy == double_error < st.dx
      e1 == IF stepx THEN st.error - st.dy ELSE st.error
  IN  [st EXCEPT !.error = IF stepy THEN e1 + st.dx ELSE e1,
                 !.x1 = IF stepx THEN @ + st.sx ELSE @,
                 !.y1 = IF stepy THEN @ + st.sy ELSE @,
                 !.iters = @ + 1]

\* One iteration of the loop after its paint: the error term and the steps.
LoopBody(st) ==
  LET double_error == st.error * 2
      stepx == double_error > -st.dy
      stepy == double_error < st.dx
      e1 == IF stepx THEN st.error - st.dy ELSE st.error
  IN  [st EXCEPT !.error = IF stepy THEN e1 + st.dx ELSE e1,
                 !.x1 = IF stepx THEN @ + st.sx ELSE @,
                 !.y1 = IF stepy THEN @ + st.sy ELSE @,
                 !.iters = @ + 1]

\* while x1 != x2 or y1 != y2: paint, then step. fuel caps the iterations.
RECURSIVE WhileLoop(_, _, _)
WhileLoop(st, line_char, fuel) ==
  IF st.x1 # st.x2 \/ st.y1 # st.y2
  THEN IF fuel = 0
       THEN [st EXCEPT !.status = "diverged"]
       ELSE LET painted == PaintAt(st, st.x1, st.y1, line_char)
            IN  IF painted.status # "running"
                THEN painted
                ELSE WhileLoop(LoopBody(painted), line_char, fuel - 1)
  ELSE st

\* draw_line_segment without the paint after the loop.
draw_line_segment_NoFinalPaint(cv, start, end, line_char) ==
  LET looped == WhileLoop(LineInit(cv, start, end), line_char, LoopCap)
  IN  [looped EXCEPT !.status = IF @ = "running" THEN "returned" ELSE @]

\* The whole of draw_line_segment: the loop, then the paint of the end point.
draw_line_segment(cv, start, end, line_char) ==
  LET looped == WhileLoop(LineInit(cv, start, end), line_char, LoopCap)
  IN  IF looped.status # "running"
      THEN looped
      ELSE LET last == PaintAt(looped, looped.x2, looped.y2, line_char)
           IN  [last EXCEPT !.status = IF @ = "running" THEN "returned" ELSE @]

\* ------------------------------------------------------- draw_polygon
\* What a drawing call leaves behind: the canvas, how the call ended, the
\* segments draw_line_segment was called on, each call's painted cells and
\* iteration count, and (draw_n_gon) the vertices.
Outcome(cv, status) ==
  [canvas |-> cv, status |-> status, calls |-> <<>>, traces |-> <<>>,
   iters |-> <<>>, verts |-> <<>>]

\* for start_point, end_point in zip(start_points, end_points):
\* an exception in one segment ends the loop.
RECURSIVE ForEachSegment(_, _, _)
ForEachSegment(acc, segments, line_char) ==
  IF segments = <<>> \/ acc.status # "returned"
  THEN acc
  ELSE LET seg == Head(segments)
           done == draw_line_segment(acc.canvas, seg[1], seg[2], line_char)
       IN  ForEachSegment(
             [acc EXCEPT !.canvas = done.canvas,
                         !.status = done.status,
                         !.calls = Append(@, seg),
                         !.traces = Append(@, done.trace),
                         !.iters = Append(@, done.iters)],
             Tail(segments), line_char)

\* draw_polygon closing from points[1] (the second point) instead of
\* points[-1].
draw_polygon_ClosesFromSecond(cv, points, closed, line_char) ==
  LET n == Len(points)
      open_starts == Slice(points, 0, -1)
      open_ends == Slice(points, 1, n)
  IN  IF closed /\ ~ValidIndex(1, n)
      THEN Outcome(cv, "IndexError")
      ELSE LET start_points == IF closed
                               THEN Append(open_starts, points[ListPos(1, n)])
                               ELSE open_starts
               end_points == IF closed
                             THEN Append(open_ends, points[ListPos(0, n)])
                             ELSE open_ends
           IN  ForEachSegment(Outcome(cv, "returned"),
                              Zip(start_points, end_points), line_char)

draw_polygon(cv, points, closed, line_char) ==
  LET n == Len(points)
      open_starts == Slice(points, 0, -1)
      open_ends == Slice(points, 1, n)
  IN  IF closed /\ ~ValidIndex(-1, n)
      THEN Outcome(cv, "IndexError")
      ELSE LET start_points == IF closed
                               THEN Append(open_starts, points[ListPos(-1, n)])
                               ELSE open_starts
               end_points == IF closed
                             THEN Append(open_ends, points[ListPos(0, n)])
                             ELSE open_ends
           IN  ForEachSegment(Outcome(cv, "returned"),
                              Zip(start_points, end_points), line_char)

\* ---------------------------------------------------------- draw_line
draw_line(cv, start, end, line_char) ==
  draw_polygon(cv, <<start, end>>, FALSE, line_char)

\* ----------------------------------------------------- draw_rectangle
\* draw_rectangle with the two given corners first: the outline crosses.
draw_rectangle_Crossed(cv, upper_left, lower_right, line_char) ==
  LET x1 == upper_left[1]
      y1 == upper_left[2]
      x2 == lower_right[1]
      y2 == lower_right[2]
  IN  draw_polygon(cv, <<upper_left, lower_right, <<x2, y1>>, <<x1, y2>>>>,
                   TRUE, line_char)

draw_rectangle(cv, upper_left, lower_right, line_char) ==
  LET x1 == upper_left[1]
      y1 == upper_left[2]
      x2 == lower_right[1]
      y2 == lower_right[2]
  IN  draw_polygon(cv, <<upper_left, <<x2, y1>>, lower_right, <<x1, y2>>>>,
                   TRUE, line_char)

\* --------------------------------------------------------- draw_n_gon
\* The vertex at one angle: (round(x), round(y))
Vertex(center, radius, angle) ==
  << Round(center[1] * Scale + radius * CosScaled(angle)),
     Round(center[2] * Scale + radius * SinScaled(angle)) >>

\* range(rotation, 360 + rotation, 360 // number_of_points)
Angles(number_of_points, rotation) ==
  PyRange(rotation, 360 + rotation, 360 \div number_of_points)

draw_n_gon(cv, center, radius, number_of_points, rotation, line_char) ==
  IF number_of_points = 0
  THEN Outcome(cv, "ZeroDivisionError")
  ELSE IF 360 \div number_of_points = 0
  THEN Outcome(cv, "ValueError")
  ELSE LET angles == Angles(number_of_points, rotation)
           points == [i \in 1..Len(angles) |-> Vertex(center, radius, angles[i])]
       IN  [draw_polygon(cv, points, TRUE, line_char) EXCEPT !.verts = points]

\* -------------------------------------------------------------- state
VARIABLES
  canvas,   \* the canvas the calls draw on
  pre,      \* the canvas as the last call found it
  op,       \* the last call: its name and arguments
  result,   \* how the last call ended: "returned" or the exception raised
  calls,    \* the segments the last call handed to draw_line_segment
  traces,   \* per segment, the cells painted, in order
  iters,    \* per segment, the iterations of the while loop
  verts,    \* the vertices the last draw_n_gon generated
  ncalls    \* the number of calls made on this canvas

vars == <<canvas, pre, op, result, calls, traces, iters, verts, ncalls>>

Call(name, points, closed, line_char, radius, k, rotation) ==
  [name |-> name, points |-> points, closed |-> closed, line_char |-> line_char,
   radius |-> radius, number_of_points |-> k, rotation |-> rotation]

Init ==
  /\ canvas = Blank
  /\ pre = Blank
  /\ op = Call("none", <<>>, FALSE, <<>>, 0, 0, 0)
  /\ result = "none"
  /\ calls = <<>>
  /\ traces = <<>>
  /\ iters = <<>>
  /\ verts = <<>>
  /\ ncalls = 0

\* A call can be made while no exception has ended the script.
Ready == ncalls < MaxCalls /\ result \in {"none", "returned"}

\* The state after a call that ended as out.
Finish(call, out) ==
  /\ pre' = canvas
  /\ canvas' = out.canvas
  /\ op' = call
  /\ result' = out.status
  /\ calls' = out.calls
  /\ traces' = out.traces
  /\ iters' = out.iters
  /\ verts' = out.verts
  /\ ncalls' = ncalls + 1

DrawLine(start, end, line_char) ==
  /\ Ready
  /\ Finish(Call("draw_line", <<start, end>>, FALSE, line_char, 0, 0, 0),
            draw_line(canvas, start, end, line_char))

DrawPolygon(points, closed, line_char) ==
  /\ Ready
  /\ Finish(Call("draw_polygon", points, closed, line_char, 0, 0, 0),
            draw_polygon(canvas, points, closed, line_char))

DrawRectangle(upper_left, lower_right, line_char) ==
  /\ Ready
  /\ Finish(Call("draw_rectangle", <<upper_left, lower_right>>, TRUE, line_char, 0, 0, 0),
            draw_rectangle(canvas, upper_left, lower_right, line_char))

DrawNGon(center, radius, number_of_points, rotation, line_char) ==
  /\ Ready
  /\ Finish(Call("draw_n_gon", <<center>>, TRUE, line_char, radius,
                 number_of_points, rotation),
            draw_n_gon(canvas, center, radius, number_of_points, rotation, line_char))

\* ------------------------------------------------------------- inputs
GridPts == {<<x, y>> : x \in 0..(W - 1), y \in 0..(H - 1)}

\* One point beyond each edge, and one beyond the reach of a negative index.
OutPts == {<<-1, 1>>, <<W, 1>>, <<1, -1>>, <<1, H>>, <<1, -H - 1>>}

AllPts == GridPts \cup OutPts

\* Paint strings: the program's own are one character long.
Star == <<"*">>

Hash == <<"#">>

Dash == <<"-">>

Wide == <<"+", "+">>

\* Sequences over S of length 0..n
SeqsUpTo(S, n) == UNION {[1..m -> S] : m \in 0..n}

PolyPts == {<<0, 0>>, <<W - 1, 1>>, <<2, H - 1>>, <<1, H>>}

NGonCenters == {<<2, 2>>}

NGonRadii == {0, 2}

Rotations == {0, 80}

\* The points of a session's calls.
SessionPts == {<<0, 0>>, <<W - 1, 2>>, <<2, H - 1>>, <<W, 1>>}

\* ----------------------------------------------------- specifications
\* A session: up to MaxCalls calls on one canvas, each seeing what the
\* earlier ones painted.
Next ==
  \/ \E s \in SessionPts, e \in SessionPts, ch \in {Star, Wide} : DrawLine(s, e, ch)
  \/ \E pts \in SeqsUpTo(SessionPts, 2), cl \in BOOLEAN : DrawPolygon(pts, cl, Star)
  \/ \E ul \in SessionPts, lr \in SessionPts : DrawRectangle(ul, lr, Hash)
  \/ \E k \in {1, 4, 7} : DrawNGon(<<2, 2>>, 2, k, 0, Dash)

Spec == Init /\ [][Next]_vars

\* One call on a freshly made canvas, over all the points of the canvas and
\* the points beyond it.
Fresh == ncalls = 0

CallNext ==
  \/ \E s \in AllPts, e \in AllPts, ch \in {Star, Wide} :
       Fresh /\ DrawLine(s, e, ch)
  \/ \E pts \in SeqsUpTo(PolyPts, MaxPolyLen), cl \in BOOLEAN :
       Fresh /\ DrawPolygon(pts, cl, Star)
  \/ \E ul \in AllPts, lr \in AllPts :
       Fresh /\ DrawRectangle(ul, lr, Hash)
  \/ \E c \in NGonCenters, r \in NGonRadii, k \in 0..MaxK, rot \in Rotations :
       Fresh /\ DrawNGon(c, r, k, rot, Dash)

CallSpec == Init /\ [][CallNext]_vars

\* ------------------------------------------------------------- claims
\* The character of cell (x, y) = p of a canvas whose rows reach it.
Cell(cv, p) == cv[p[2] + 1][p[1] + 1]

\* The canvas has H rows of W cells each.
Intact(cv) == Len(cv) = H /\ \A y \in 1..H : Len(cv[y]) = W

\* The cells of an intact canvas that are not blank.
PaintedCells(cv) == {p \in GridPts : Cell(cv, p) # Fill}

Elements(seq) == {seq[i] : i \in 1..Len(seq)}

\* The last call was draw_line(start, end) with both points on the canvas
\* and a one-character paint string.
LineOnCanvas ==
  /\ op.name = "draw_line"
  /\ Len(op.line_char) = 1
  /\ op.points[1] \in GridPts
  /\ op.points[2] \in GridPts

\* The cells draw_line paints on a blank canvas for the segment taken from
\* its end to its start.
ReversePainted ==
  PaintedCells(draw_line(Blank, op.points[2], op.points[1], op.line_char).canvas)

\* The point reflection through the middle of the last call's segment.
Reflect(c) ==
  <<op.points[1][1] + op.points[2][1] - c[1],
    op.points[1][2] + op.points[2][2] - c[2]>>

SegDx == Abs(op.points[2][1] - op.points[1][1])

SegDy == Abs(op.points[2][2] - op.points[1][2])

\* C1 as stated: draw_line(p1, p2) on a blank canvas paints the same set of
\* cells as draw_line(p2, p1) on a blank canvas.
C1_SameCellsBothWays ==
  (LineOnCanvas /\ pre = Blank) => PaintedCells(canvas) = ReversePainted

\* C1 amended: draw_line(p1, p2) on a blank canvas returns and paints the
\* point reflection, through the middle of the segment, of the cells
\* draw_line(p2, p1) paints; the two sets are the same set when the segment
\* is horizontal, vertical or an exact diagonal.
C1_ReflectedCellsBothWays ==
  (LineOnCanvas /\ pre = Blank) =>
    /\ result = "returned"
    /\ PaintedCells(canvas) = {Reflect(c) : c \in ReversePainted}
    /\ (SegDx = 0 \/ SegDy = 0 \/ SegDx = SegDy) =>
         PaintedCells(canvas) = ReversePainted

\* A segment drawn on a blank canvas whose reverse paints other cells.
C1_Witness ==
  /\ LineOnCanvas
  /\ pre = Blank
  /\ result = "returned"
  /\ PaintedCells(canvas) # ReversePainted
  /\ PaintedCells(canvas) = {Reflect(c) : c \in ReversePainted}

\* C2: after draw_line(p1, p2) with both points on the canvas returns, the
\* cells p1 and p2 hold the paint character, and with p1 = p2 that cell is the
\* only one painted.
C2_EndpointsPainted ==
  (LineOnCanvas /\ result = "returned") =>
    /\ Cell(canvas, op.points[1]) = op.line_char[1]
    /\ Cell(canvas, op.points[2]) = op.line_char[1]
    /\ (op.points[1] = op.points[2] /\ pre = Blank) =>
         PaintedCells(canvas) = {op.points[1]}

\* A returned draw_line between two different points, both painted.
C2_Witness ==
  /\ LineOnCanvas
  /\ result = "returned"
  /\ op.points[1] # op.points[2]
  /\ Cell(canvas, op.points[1]) = op.line_char[1]
  /\ Cell(canvas, op.points[2]) = op.line_char[1]

\* C3: the cells draw_line_segment paints, in the order it paints them, start
\* at p1, end at p2, move by at most 1 in x and in y from one to the next, and
\* repeat no cell; they are the cells painted on the canvas.
C3_ConnectedPath ==
  LineOnCanvas =>
    /\ result = "returned"
    /\ Len(traces) = 1
    /\ LET t == traces[1]
       IN  /\ Len(t) >= 1
           /\ t[1] = op.points[1]
           /\ t[Len(t)] = op.points[2]
           /\ \A i \in 1..(Len(t) - 1) :
                /\ Abs(t[i + 1][1] - t[i][1]) <= 1
                /\ Abs(t[i + 1][2] - t[i][2]) <= 1
           /\ \A i \in 1..Len(t), j \in 1..Len(t) : i # j => t[i] # t[j]
           /\ pre = Blank => PaintedCells(canvas) = Elements(t)

\* A segment that takes both straight and diagonal steps.
C3_Witness ==
  /\ LineOnCanvas
  /\ result = "returned"
  /\ SegDx >= 2
  /\ SegDy >= 1
  /\ SegDx # SegDy
  /\ Len(traces[1]) = SegDx + 1

\* The segments draw_polygon is to rasterize for its points, in order.
ExpectedSegments(points, closed) ==
  LET n == Len(points)
      open == [i \in 1..(n - 1) |-> <<points[i], points[i + 1]>>]
  IN  IF closed THEN Append(open, <<points[n], points[1]>>) ELSE open

\* C4: a returned draw_polygon of n >= 2 points has called the rasterizer on
\* the n - 1 segments (points[i], points[i+1]) in increasing i, and when
\* closed on (points[n-1], points[0]) as the n-th and last.
C4_SegmentsInOrder ==
  (op.name = "draw_polygon" /\ Len(op.points) >= 2 /\ result = "returned") =>
    /\ calls = ExpectedSegments(op.points, op.closed)
    /\ Len(calls) = IF op.closed THEN Len(op.points) ELSE Len(op.points) - 1

\* A returned closed polygon of three different points.
C4_Witness ==
  /\ op.name = "draw_polygon"
  /\ op.closed
  /\ result = "returned"
  /\ Len(op.points) = 3
  /\ Cardinality(Elements(op.points)) = 3
  /\ Len(calls) = 3
  /\ calls[3] = <<op.points[3], op.points[1]>>

\* C5 as stated: draw_n_gon with number_of_points = k >= 1 generates exactly
\* k vertices, the i-th at angle rotation + i * floor(360 / k), and draws
\* them as a closed polygon.
C5_NGonHasKVertices ==
  (op.name = "draw_n_gon" /\ op.number_of_points >= 1) =>
    /\ Len(verts) = op.number_of_points
    /\ \A i \in 1..Len(verts) :
         verts[i] = Vertex(op.points[1], op.radius,
                           op.rotation + (i - 1) * (360 \div op.number_of_points))
    /\ result = "returned" => calls = ExpectedSegments(verts, TRUE)

\* Whether p is on the border of the box spanned by corners a and b.
OnOutline(p, a, b) ==
  LET xlo == Min(a[1], b[1])
      xhi == Max(a[1], b[1])
      ylo == Min(a[2], b[2])
      yhi == Max(a[2], b[2])
  IN  /\ xlo <= p[1] /\ p[1] <= xhi
      /\ ylo <= p[2] /\ p[2] <= yhi
      /\ (p[1] \in {xlo, xhi} \/ p[2] \in {ylo, yhi})

\* The last call was draw_rectangle on a blank canvas, corners on the canvas.
RectangleOnBlank ==
  /\ op.name = "draw_rectangle"
  /\ pre = Blank
  /\ Len(op.line_char) = 1
  /\ op.points[1] \in GridPts
  /\ op.points[2] \in GridPts

\* C6: draw_rectangle on a blank canvas, with the corners in either order on
\* each axis, paints exactly the border cells of the box the corners span and
\* leaves every other cell blank.
C6_RectangleOutline ==
  RectangleOnBlank =>
    /\ result = "returned"
    /\ Intact(canvas)
    /\ \A p \in GridPts :
         Cell(canvas, p) = IF OnOutline(p, op.points[1], op.points[2])
                           THEN op.line_char[1] ELSE Fill

\* A rectangle given by its lower right corner first, with an interior.
C6_Witness ==
  /\ RectangleOnBlank
  /\ result = "returned"
  /\ op.points[1][1] >= op.points[2][1] + 2
  /\ op.points[1][2] >= op.points[2][2] + 2
  /\ \E p \in GridPts :
       /\ op.points[2][1] < p[1] /\ p[1] < op.points[1][1]
       /\ op.points[2][2] < p[2] /\ p[2] < op.points[1][2]
       /\ Cell(canvas, p) = Fill

\* C7 as stated: draw_polygon with fewer than 2 points ends in an error and
\* leaves the canvas as it was; it never returns normally.
C7_TooFewPointsRaise ==
  (op.name = "draw_polygon" /\ Len(op.points) < 2) =>
    /\ result # "returned"
    /\ canvas = pre

\* The call made in this step had all its points on the canvas, a
\* one-character paint string, and is one of draw_line, draw_polygon and
\* draw_rectangle.
OnCanvasCall(call) ==
  /\ call.name \in {"draw_line", "draw_polygon", "draw_rectangle"}
  /\ Len(call.line_char) = 1
  /\ \A i \in 1..Len(call.points) : call.points[i] \in GridPts

\* C8: a draw_line, draw_polygon or draw_rectangle call with its points on
\* the canvas and a one-character paint string, made on a canvas of H rows of
\* W cells, writes only cells of the canvas and leaves it H rows of W cells;
\* so do all the calls of a sequence of them.
C8_CanvasShapeKept ==
  [][(ncalls' = ncalls + 1 /\ OnCanvasCall(op') /\ Intact(canvas)) =>
       /\ Intact(canvas')
       /\ \A i \in 1..Len(traces') : Elements(traces'[i]) \subseteq GridPts]_vars

\* A second call of a session, on a canvas the first one painted.
C8_Witness ==
  /\ ncalls = 2
  /\ OnCanvasCall(op)
  /\ Intact(pre)
  /\ pre # Blank
  /\ Intact(canvas)
  /\ canvas # pre
  /\ traces # <<>>

\* C9 as stated: when draw_line_segment comes to paint a cell outside the
\* canvas the call raises an indexing fault at that cell; no such cell is
\* written and no row changes its length.
C9_OutsideCellFaults ==
  (op.name = "draw_line" /\ pre = Blank /\ Len(traces) = 1
     /\ \E i \in 1..Len(traces[1]) : traces[1][i] \notin GridPts) =>
    /\ result = "IndexError"
    /\ Intact(canvas)
    /\ \A i \in 1..(Len(traces[1]) - 1) : traces[1][i] \in GridPts

\* C10: for every pair of points the loop of draw_line_segment ends; it
\* never leaves the box spanned by start and end, takes at most
\* max(|x2-x1|, |y2-y1|) iterations, and exactly that many when it reaches end.
C10_LoopTerminates ==
  op.name = "draw_line" =>
    /\ result \in {"returned", "IndexError"}
    /\ Len(iters) = 1
    /\ iters[1] <= Max(SegDx, SegDy)
    /\ result = "returned" =>
         /\ iters[1] = Max(SegDx, SegDy)
         /\ traces[1][Len(traces[1])] = op.points[2]
    /\ \A i \in 1..Len(traces[1]) :
         /\ Min(op.points[1][1], op.points[2][1]) <= traces[1][i][1]
         /\ traces[1][i][1] <= Max(op.points[1][1], op.points[2][1])
         /\ Min(op.points[1][2], op.points[2][2]) <= traces[1][i][2]
         /\ traces[1][i][2] <= Max(op.points[1][2], op.points[2][2])

\* A steep segment drawn right to left and bottom to top, run to its end.
C10_Witness ==
  /\ op.name = "draw_line"
  /\ result = "returned"
  /\ op.points[2][1] < op.points[1][1]
  /\ op.points[2][2] < op.points[1][2]
  /\ SegDy > SegDx
  /\ iters[1] = SegDy

====
